---- MODULE Spec2Model ----
(***************************************************************************)
(* The two kitty watcher modules of scratchbar:                            *)
(*   src/menu_watcher.py                     (variant "menu_watcher")      *)
(*   src/procs/menu_panel/menu_watcher.py    (variant "menu_panel")        *)
(* Each module, when loaded, creates one AF_UNIX stream socket, connects   *)
(* it to the path in os.environ["BAR_MENU_WATCHER_SOCK"], and defines the  *)
(* callbacks the host invokes.  Every callback writes at most one byte.    *)
(***************************************************************************)
EXTENDS Naturals, Sequences, FiniteSets

\* Number of callback invocations the host makes in one explored run.
MaxCalls == 3

\* The name of the environment variable both modules read.
SockVar == "BAR_MENU_WATCHER_SOCK"

\* Socket paths the environment variable may name.
Paths == {"/tmp/test.sock", "/tmp/other.sock"}

\* Which of the two files the host has been told to load.
Variants == {"menu_watcher", "menu_panel"}

\* Python values a payload field may hold: the two booleans and None.
Values == {"True", "False", "None"}

\* Payloads the host passes as `data`: the dicts with or without a "focused"
\* field, and two that carry a resize geometry as well.
Payloads ==
    UNION { [D -> Values] : D \in SUBSET {"focused"} }
    \cup { [k \in D \cup {"new_geometry"} |-> IF k = "focused" THEN "False" ELSE "None"] :
              D \in SUBSET {"focused"} }

\* Python truthiness of a payload value (the test of `if`/`not`/conditional
\* expressions).
Truthy(v) == v = "True"

VARIABLES
    variant,         \* the file being loaded
    environ,         \* os.environ restricted to SockVar: a function on {} or {SockVar}
    listeners,       \* the paths some process listens on
    pc,              \* position in the module body: the next statement to run
    client,          \* the module-level socket object
    socketsCreated,  \* calls of socket.socket()
    connectAttempts, \* calls of client.connect()
    connectedTo,     \* path the client is connected to ("" when not connected)
    defined,         \* names of the callbacks the module has defined
    peerOpen,        \* the listener's end of the connection is open
    stream,          \* bytes the socket has accepted, in order
    raised,          \* exception that left the last statement/callback ("none" if it returned)
    calls            \* log of the host's callback invocations

vars == <<variant, environ, listeners, pc, client, socketsCreated, connectAttempts,
          connectedTo, defined, peerOpen, stream, raised, calls>>

static == <<variant, environ, listeners>>
conn == <<client, socketsCreated, connectAttempts, connectedTo>>

Init ==
    /\ variant \in Variants
    /\ environ \in [{} -> Paths] \cup [{SockVar} -> Paths]
    /\ listeners \in SUBSET Paths
    /\ pc = "line4"
    /\ client = "undefined"
    /\ socketsCreated = 0
    /\ connectAttempts = 0
    /\ connectedTo = ""
    /\ defined = {}
    /\ peerOpen = FALSE
    /\ stream = <<>>
    /\ raised = "none"
    /\ calls = <<>>

----------------------------------------------------------------------------
\* Module body.

\* client = socket.socket(socket.AF_UNIX, socket.SOCK_STREAM)
Line4 ==
    /\ pc = "line4"
    /\ client' = "created"
    /\ socketsCreated' = socketsCreated + 1
    /\ pc' = "line5"
    /\ UNCHANGED <<static, connectAttempts, connectedTo, defined, peerOpen, stream,
                   raised, calls>>

\* Variant of connect that tries a second time when the first attempt is refused.
connect_retry(address) ==
    IF address \in listeners
    THEN /\ connectAttempts' = connectAttempts + 1
         /\ client' = "connected"
         /\ connectedTo' = address
         /\ peerOpen' = TRUE
         /\ raised' = "none"
    ELSE /\ connectAttempts' = connectAttempts + 2
         /\ raised' = "OSError"
         /\ UNCHANGED <<client, connectedTo, peerOpen>>

\* client.connect(address): one attempt; succeeds iff a process listens on address.
connect(address) ==
    /\ connectAttempts' = connectAttempts + 1
    /\ IF address \in listeners
       THEN /\ client' = "connected"
            /\ connectedTo' = address
            /\ peerOpen' = TRUE
            /\ raised' = "none"
       ELSE /\ raised' = "OSError"
            /\ UNCHANGED <<client, connectedTo, peerOpen>>

\* os.environ[SockVar] is evaluated first: KeyError when unset, before connect runs.
EnvironLookupFails == SockVar \notin DOMAIN environ

\* Variant of line 5 that skips the connect when the variable is unset
\* (os.environ.get guarded by `if`), so the module goes on loading.
Line5_skip_unset ==
    /\ pc = "line5"
    /\ IF EnvironLookupFails
       THEN /\ raised' = "none"
            /\ UNCHANGED <<client, connectAttempts, connectedTo, peerOpen>>
       ELSE connect(environ[SockVar])
    /\ pc' = IF raised' = "none" THEN "line8" ELSE "failed"
    /\ UNCHANGED <<static, socketsCreated, defined, stream, calls>>

\* client.connect(os.environ["BAR_MENU_WATCHER_SOCK"])
Line5 ==
    /\ pc = "line5"
    /\ IF EnvironLookupFails
       THEN /\ raised' = "KeyError"
            /\ UNCHANGED <<client, connectAttempts, connectedTo, peerOpen>>
       ELSE connect(environ[SockVar])
    /\ pc' = IF raised' = "none" THEN "line8" ELSE "failed"
    /\ UNCHANGED <<static, socketsCreated, defined, stream, calls>>

\* def on_focus_change(boss, window, data): ...
Line8 ==
    /\ pc = "line8"
    /\ defined' = defined \cup {"on_focus_change"}
    /\ pc' = IF variant = "menu_panel" THEN "line13" ELSE "loaded"
    /\ UNCHANGED <<static, conn, peerOpen, stream, raised, calls>>

\* def on_resize(boss, window, data): ...   (menu_panel only)
Line13 ==
    /\ pc = "line13"
    /\ defined' = defined \cup {"on_resize"}
    /\ pc' = "loaded"
    /\ UNCHANGED <<static, conn, peerOpen, stream, raised, calls>>

----------------------------------------------------------------------------
\* Callbacks.

\* Variant of sendall that catches the write error instead of raising it.
sendall_swallow(bytes) ==
    /\ IF peerOpen
       THEN stream' = stream \o bytes /\ raised' = "none"
       ELSE stream' = stream /\ raised' = "none"
    /\ UNCHANGED conn

\* Variant of sendall that reconnects the client when the write fails.
sendall_reconnect(bytes) ==
    IF peerOpen
    THEN stream' = stream \o bytes /\ raised' = "none" /\ UNCHANGED conn
    ELSE /\ stream' = stream
         /\ raised' = "BrokenPipeError"
         /\ connectAttempts' = connectAttempts + 1
         /\ UNCHANGED <<client, socketsCreated, connectedTo>>

\* Variant of sendall that drops a byte equal to the last one sent.
sendall_dedup(bytes) ==
    /\ IF peerOpen
       THEN /\ stream' = IF stream # <<>> /\ bytes = <<stream[Len(stream)]>>
                         THEN stream ELSE stream \o bytes
            /\ raised' = "none"
       ELSE stream' = stream /\ raised' = "BrokenPipeError"
    /\ UNCHANGED conn

\* client.sendall(bytes) on the module-level socket: the bytes are accepted
\* while the peer's end is open; otherwise the call raises and nothing is sent.
sendall(bytes) ==
    /\ IF peerOpen
       THEN stream' = stream \o bytes /\ raised' = "none"
       ELSE stream' = stream /\ raised' = "BrokenPipeError"
    /\ UNCHANGED conn

\* Variant of the subscript that reads data.get("focused"): a missing key is
\* falsy and the unfocused byte is written.
subscript_get(data) ==
    /\ IF peerOpen
       THEN stream' = stream \o <<0>> /\ raised' = "none"
       ELSE stream' = stream /\ raised' = "BrokenPipeError"
    /\ UNCHANGED conn

\* data["focused"] raises KeyError when the key is missing, before any call.
subscript_raises(data) ==
    /\ raised' = "KeyError"
    /\ UNCHANGED <<stream, conn>>

\* Variant of the byte choice with the two literals exchanged.
menu_watcher_bytes_swapped(data) == IF Truthy(data["focused"]) THEN <<0>> ELSE <<1>>

\* Variant of the byte choice that sends the ASCII digits b"1" / b"0".
menu_watcher_bytes_ascii(data) == IF Truthy(data["focused"]) THEN <<49>> ELSE <<48>>

\* menu_watcher.py: client.sendall(b"\1" if data["focused"] else b"\0")
menu_watcher_bytes(data) == IF Truthy(data["focused"]) THEN <<1>> ELSE <<0>>

\* menu_watcher.py: def on_focus_change(boss, window, data)
menu_watcher_on_focus_change(data) ==
    IF "focused" \notin DOMAIN data
    THEN subscript_raises(data)
    ELSE sendall(menu_watcher_bytes(data))

\* Variant of the menu_panel focus callback that also signals the focused
\* case, as the top-level file does.
menu_panel_on_focus_change_both(data) ==
    IF "focused" \notin DOMAIN data
    THEN subscript_raises(data)
    ELSE sendall(IF Truthy(data["focused"]) THEN <<1>> ELSE <<0>>)

\* menu_panel/menu_watcher.py: if not data["focused"]: client.sendall(b"\0")
menu_panel_on_focus_change(data) ==
    IF "focused" \notin DOMAIN data
    THEN subscript_raises(data)
    ELSE IF ~Truthy(data["focused"])
         THEN sendall(<<0>>)
         ELSE raised' = "none" /\ UNCHANGED <<stream, conn>>

\* Variant of the resize callback that signals only a payload with a geometry.
menu_panel_on_resize_reads(data) ==
    IF "new_geometry" \in DOMAIN data
    THEN sendall(<<1>>)
    ELSE raised' = "none" /\ UNCHANGED <<stream, conn>>

\* menu_panel/menu_watcher.py: client.sendall(b"\1")
menu_panel_on_resize(data) == sendall(<<1>>)

\* The host may invoke a callback once the module has loaded and defined it;
\* one callback body runs to completion before the next begins.
HostCalls(name) ==
    /\ pc = "loaded"
    /\ name \in defined
    /\ Len(calls) < MaxCalls

Log(name, data) ==
    calls' = Append(calls, [cb |-> name, data |-> data, raised |-> raised'])

FocusChangeTop ==
    \E data \in Payloads :
        /\ HostCalls("on_focus_change")
        /\ variant = "menu_watcher"
        /\ menu_watcher_on_focus_change(data)
        /\ Log("on_focus_change", data)
        /\ UNCHANGED <<static, pc, defined, peerOpen>>

FocusChangePanel ==
    \E data \in Payloads :
        /\ HostCalls("on_focus_change")
        /\ variant = "menu_panel"
        /\ menu_panel_on_focus_change(data)
        /\ Log("on_focus_change", data)
        /\ UNCHANGED <<static, pc, defined, peerOpen>>

Resize ==
    \E data \in Payloads :
        /\ HostCalls("on_resize")
        /\ menu_panel_on_resize(data)
        /\ Log("on_resize", data)
        /\ UNCHANGED <<static, pc, defined, peerOpen>>

\* The listener closes its end of the accepted connection.
PeerClose ==
    /\ client = "connected"
    /\ peerOpen
    /\ peerOpen' = FALSE
    /\ UNCHANGED <<static, pc, conn, defined, stream, raised, calls>>

Next ==
    \/ Line4
    \/ Line5
    \/ Line8
    \/ Line13
    \/ FocusChangeTop
    \/ FocusChangePanel
    \/ Resize
    \/ PeerClose

Spec == Init /\ [][Next]_vars

----------------------------------------------------------------------------
\* Vocabulary of the properties.

\* This step is an invocation of callback `name` by the host.
Invoked(name) ==
    /\ Len(calls') = Len(calls) + 1
    /\ calls'[Len(calls')].cb = name

\* The payload of the invocation made in this step.
NewData == calls'[Len(calls')].data

\* The payload carries a boolean `focused` field.
BoolFocused(data) ==
    /\ "focused" \in DOMAIN data
    /\ data["focused"] \in {"True", "False"}

\* The byte a successful invocation puts on the stream, as the documentation
\* of the wire protocol states it (<<>> when the invocation writes nothing).
Produced(c) ==
    IF c.raised # "none" THEN <<>>
    ELSE IF c.cb = "on_resize" THEN <<1>>
    ELSE IF "focused" \notin DOMAIN c.data THEN <<>>
    ELSE IF variant = "menu_watcher"
         THEN (IF c.data["focused"] = "True" THEN <<1>> ELSE <<0>>)
         ELSE (IF c.data["focused"] = "True" THEN <<>> ELSE <<0>>)

RECURSIVE ProducedBy(_)
ProducedBy(log) ==
    IF log = <<>> THEN <<>>
    ELSE ProducedBy(SubSeq(log, 1, Len(log) - 1)) \o Produced(log[Len(log)])

\* The i-th invocation of the log raised the write error.
Failed(i) == calls[i].raised = "BrokenPipeError"

----------------------------------------------------------------------------
\* C1 (as stated): in the top-level variant every on_focus_change invocation
\* with a boolean data["focused"] appends exactly one byte to the stream,
\* 0x01 iff focused is true, else 0x00.
C1_AsStated ==
    [][ (variant = "menu_watcher" /\ Invoked("on_focus_change") /\ BoolFocused(NewData))
        => stream' = Append(stream, IF NewData["focused"] = "True" THEN 1 ELSE 0) ]_vars

\* C1 (amended): in the top-level variant every on_focus_change invocation
\* with a boolean data["focused"] hands exactly one byte to the socket, 0x01
\* iff focused is true, else 0x00; the byte is appended to the stream when the
\* peer's end is open, and when it is closed the write raises and the stream
\* is unchanged.
C1_FocusByteTop ==
    [][ (variant = "menu_watcher" /\ Invoked("on_focus_change") /\ BoolFocused(NewData))
        => IF peerOpen
           THEN /\ stream' = Append(stream, IF NewData["focused"] = "True" THEN 1 ELSE 0)
                /\ raised' = "none"
           ELSE /\ stream' = stream
                /\ raised' = "BrokenPipeError" ]_vars

\* C1 witness: the top-level variant has signalled focused then unfocused.
C1_Witness ==
    /\ variant = "menu_watcher"
    /\ Len(calls) = 2
    /\ BoolFocused(calls[1].data) /\ calls[1].data["focused"] = "True"
    /\ BoolFocused(calls[2].data) /\ calls[2].data["focused"] = "False"
    /\ stream = <<1, 0>>

\* C2 (as stated): in the menu_panel variant on_focus_change with focused =
\* true leaves the stream unchanged and with focused = false appends exactly
\* one byte 0x00.
C2_AsStated ==
    [][ (variant = "menu_panel" /\ Invoked("on_focus_change") /\ BoolFocused(NewData))
        => IF NewData["focused"] = "True"
           THEN stream' = stream
           ELSE stream' = Append(stream, 0) ]_vars

\* C2 (amended): in the menu_panel variant on_focus_change with focused = true
\* attempts no write and leaves the stream unchanged; with focused = false it
\* appends exactly one byte 0x00 when the peer's end is open, and when it is
\* closed the write raises and the stream is unchanged.
C2_FocusBytePanel ==
    [][ (variant = "menu_panel" /\ Invoked("on_focus_change") /\ BoolFocused(NewData))
        => IF NewData["focused"] = "True"
           THEN stream' = stream /\ raised' = "none"
           ELSE IF peerOpen
                THEN stream' = Append(stream, 0) /\ raised' = "none"
                ELSE stream' = stream /\ raised' = "BrokenPipeError" ]_vars

\* C2 witness: the menu_panel variant has seen a focused event, which wrote
\* nothing, and an unfocused event, which wrote 0x00.
C2_Witness ==
    /\ variant = "menu_panel"
    /\ Len(calls) = 2
    /\ calls[1].cb = "on_focus_change" /\ calls[2].cb = "on_focus_change"
    /\ BoolFocused(calls[1].data) /\ calls[1].data["focused"] = "True"
    /\ BoolFocused(calls[2].data) /\ calls[2].data["focused"] = "False"
    /\ calls[1].raised = "none"
    /\ stream = <<0>>

\* C3 (as stated): every on_resize invocation appends exactly one byte 0x01
\* to the stream, whatever the payload.
C3_AsStated ==
    [][ Invoked("on_resize") => stream' = Append(stream, 1) ]_vars

\* C3 (amended): every on_resize invocation, whatever the payload, appends
\* exactly one byte 0x01 when the peer's end is open; when it is closed the
\* write raises and the stream is unchanged.
C3_ResizeByte ==
    [][ Invoked("on_resize")
        => IF peerOpen
           THEN stream' = Append(stream, 1) /\ raised' = "none"
           ELSE stream' = stream /\ raised' = "BrokenPipeError" ]_vars

\* C3 witness: two resize events with different payloads, one of them empty,
\* have each written 0x01.
C3_Witness ==
    /\ Len(calls) = 2
    /\ calls[1].cb = "on_resize" /\ calls[2].cb = "on_resize"
    /\ DOMAIN calls[1].data = {}
    /\ DOMAIN calls[2].data = {"focused", "new_geometry"}
    /\ stream = <<1, 1>>

\* C4: when BAR_MENU_WATCHER_SOCK is unset, loading fails with the lookup
\* error before any callback is defined: no connection is attempted or
\* established, no callback runs and no byte is written.
C4_UnsetFailsEarly ==
    (SockVar \notin DOMAIN environ) =>
        /\ pc \in {"line4", "line5", "failed"}
        /\ (pc = "failed" => raised = "KeyError")
        /\ client # "connected"
        /\ connectAttempts = 0
        /\ defined = {}
        /\ calls = <<>>
        /\ stream = <<>>

\* C4 witness: the variable is unset and loading has failed.
C4_Witness ==
    /\ SockVar \notin DOMAIN environ
    /\ pc = "failed"
    /\ raised = "KeyError"

\* C5: when BAR_MENU_WATCHER_SOCK names a path nobody listens on, loading
\* fails at the connect step after exactly one connection attempt, and no
\* callback is defined or run afterwards.
C5_NotListeningFailsAtConnect ==
    (SockVar \in DOMAIN environ /\ environ[SockVar] \notin listeners) =>
        /\ pc \in {"line4", "line5", "failed"}
        /\ (pc \in {"line4", "line5"} => connectAttempts = 0)
        /\ (pc = "failed" => connectAttempts = 1 /\ raised = "OSError")
        /\ client # "connected"
        /\ defined = {}
        /\ calls = <<>>
        /\ stream = <<>>

\* C5 witness: the variable names a path without a listener, another path
\* has one, and loading has failed after one attempt.
C5_Witness ==
    /\ SockVar \in DOMAIN environ
    /\ environ[SockVar] \notin listeners
    /\ listeners # {}
    /\ pc = "failed"
    /\ connectAttempts = 1

\* C6: in either variant every byte on the stream is 0x00 or 0x01.
C6_OnlyZeroOrOne ==
    \A i \in 1..Len(stream) : stream[i] \in {0, 1}

\* C6 witness: a stream of MaxCalls bytes holding both values.
C6_Witness ==
    /\ Len(stream) = MaxCalls
    /\ \E i, j \in 1..Len(stream) : stream[i] = 0 /\ stream[j] = 1

\* C7: a callback whose write fails raises the write error to the host and
\* appends nothing, and no later callback delivers the lost byte: the stream
\* always holds exactly the bytes of the invocations that returned normally.
C7_FailedWriteNotRetried ==
    /\ [][ \A name \in {"on_focus_change", "on_resize"} :
             (Invoked(name) /\ ~peerOpen
                /\ (name = "on_focus_change" =>
                      /\ "focused" \in DOMAIN NewData
                      /\ (variant = "menu_panel" => NewData["focused"] # "True")))
             => /\ raised' = "BrokenPipeError"
                /\ calls'[Len(calls')].raised = "BrokenPipeError"
                /\ stream' = stream ]_vars
    /\ [](Len(stream) = Cardinality({i \in 1..Len(calls) : Produced(calls[i]) # <<>>}))

\* C7 witness: a write succeeded, the peer closed, the next write failed and
\* a later callback ran; only the first byte is on the stream.
C7_Witness ==
    /\ Len(calls) = 3
    /\ calls[1].raised = "none"
    /\ Failed(2)
    /\ Failed(3)
    /\ Len(stream) = 1

\* C8: the socket is created and connected exactly once, while the module
\* loads; once loaded, no step creates, connects, reconnects or closes it,
\* also after a write on it has failed.
C8_OneConnection ==
    /\ [](pc = "loaded" =>
            /\ socketsCreated = 1
            /\ connectAttempts = 1
            /\ client = "connected"
            /\ connectedTo = environ[SockVar])
    /\ [][ pc = "loaded" => UNCHANGED conn ]_vars

\* C8 witness: a callback ran after a failed write, on the connection made at
\* load time.
C8_Witness ==
    /\ Len(calls) >= 2
    /\ Failed(1)
    /\ client = "connected"
    /\ connectAttempts = 1

\* C9: the stream is the concatenation, in invocation order, of the bytes of
\* the invocations that returned normally; equal consecutive bytes both
\* appear.
C9_StreamInOrder ==
    stream = ProducedBy(calls)

\* C9 witness: the same byte twice in a row, then the other one.
C9_Witness ==
    /\ Len(stream) = 3
    /\ stream[1] = stream[2]
    /\ stream[2] # stream[3]

\* C10: an on_focus_change invocation whose payload lacks "focused" raises
\* KeyError before any write: the stream and the connection are unchanged,
\* and a callback invoked after it writes as it would have without it.
C10_MissingFocused ==
    /\ [][ (Invoked("on_focus_change") /\ "focused" \notin DOMAIN NewData)
           => /\ raised' = "KeyError"
              /\ stream' = stream
              /\ UNCHANGED <<conn, peerOpen, pc, defined>> ]_vars
    /\ [][ (/\ calls # <<>>
            /\ calls[Len(calls)].raised = "KeyError"
            /\ peerOpen
            /\ Invoked("on_resize"))
           => stream' = Append(stream, 1) /\ raised' = "none" ]_vars
    /\ [][ (/\ calls # <<>>
            /\ calls[Len(calls)].raised = "KeyError"
            /\ peerOpen
            /\ Invoked("on_focus_change")
            /\ BoolFocused(NewData)
            /\ NewData["focused"] = "False")
           => stream' = Append(stream, 0) /\ raised' = "none" ]_vars

\* C10 witness: in each variant's terms, a payload without "focused" raised
\* KeyError and the next focus event still wrote its byte.
C10_Witness ==
    /\ Len(calls) = 2
    /\ calls[1].cb = "on_focus_change"
    /\ "focused" \notin DOMAIN calls[1].data
    /\ calls[1].raised = "KeyError"
    /\ calls[2].cb = "on_focus_change"
    /\ calls[2].raised = "none"
    /\ stream = <<0>>
====
